---- MODULE Spec2Model ----
(***************************************************************************)
(* A model of the terminal audio visualizer's session controller           *)
(* (src/main.py, TerminalAudioVisualizer) and of the visualizer contract   *)
(* it drives (src/visualizer_base.py, src/visualizers/*.py).               *)
(*                                                                         *)
(* The session is single threaded.  One iteration of the render loop is    *)
(* two steps: the key step (main.py 150-168) and the frame step (main.py   *)
(* 170-196).  The variable pc is the position of the one thread.           *)
(***************************************************************************)
EXTENDS Integers, Sequences, FiniteSets, TLC

(***************************************************************************)
(* Bounds of the model.                                                    *)
(***************************************************************************)
\* '+' is offered only while sensitivity < MaxSens16 / 16 (25/16 = 1.5625)
MaxSens16 == 25
\* the longest run of sensitivity keys of one kind that sens_run counts
MaxRun == 20
\* Flame's resize keys are offered only while its setup_calls < MaxSetups
MaxSetups == 2
\* the analyzer specification reads at most MaxFrames blocks
MaxFrames == 2
\* the analyzer specification offers at most MaxGainKeys sensitivity keys
MaxGainKeys == 1
\* the frame specification renders at most MaxHueFrames frames
MaxHueFrames == 205
\* the colour specification renders at most MaxColorFrames frames
MaxColorFrames == 2
\* the plug-in specification renders at most MaxKeyFrames frames
MaxKeyFrames == 2
\* a draw of Particles removes at most MaxDeaths particles, or all the older ones
MaxDeaths == 2
\* the end points of draw_line are at most MaxReach cells from the centre
MaxReach == 3

(***************************************************************************)
(* IEEE-754 binary64 arithmetic on the values the session computes.        *)
(* A double is [neg, hi, mid, lo], the value                               *)
(*     (-1)^neg * (hi * 2^40 + mid * 2^20 + lo) * 2^-56.                   *)
(* Every double the model meets is a multiple of 2^-56 below 2^14, so the  *)
(* exact sum or difference of two of them is again such a multiple, and    *)
(* rounding it to 53 significant bits (round-half-to-even) is what the     *)
(* hardware addition returns.                                              *)
(***************************************************************************)
Limb == 2^20

RECURSIVE BitLen(_)
BitLen(n) == IF n = 0 THEN 0 ELSE 1 + BitLen(n \div 2)

\* carry propagation of a triple whose mid and lo may have reached 2*Limb
MagNorm(hi, mid, lo) ==
    LET m2 == mid + (lo \div Limb)
    IN  <<hi + (m2 \div Limb), m2 % Limb, lo % Limb>>

MagLess(a, b) ==
    \/ a[1] < b[1]
    \/ a[1] = b[1] /\ a[2] < b[2]
    \/ a[1] = b[1] /\ a[2] = b[2] /\ a[3] < b[3]

MagAdd(a, b) == MagNorm(a[1] + b[1], a[2] + b[2], a[3] + b[3])

\* a - b for a >= b, borrowing limb by limb
MagSub(a, b) ==
    LET lo  == a[3] - b[3]
        bl  == IF lo < 0 THEN 1 ELSE 0
        mid == a[2] - b[2] - bl
        bm  == IF mid < 0 THEN 1 ELSE 0
    IN  <<a[1] - b[1] - bm, mid + bm * Limb, lo + bl * Limb>>

\* round a magnitude to 53 significant bits, ties to even
Round53(a) ==
    LET bl   == BitLen(a[1])
        drop == IF bl > 13 THEN bl - 13 ELSE 0
        q    == 2^drop
        r    == a[3] % q
        base == a[3] - r
        up   == \/ 2 * r > q
                \/ 2 * r = q /\ (base \div q) % 2 = 1
    IN  IF up THEN MagNorm(a[1], a[2], base + q) ELSE <<a[1], a[2], base>>

Mag(x) == <<x.hi, x.mid, x.lo>>
Dbl(neg, m) == [neg |-> neg /\ m # <<0, 0, 0>>, hi |-> m[1], mid |-> m[2], lo |-> m[3]]

FNeg(x) == Dbl(~x.neg, Mag(x))

FAdd(x, y) ==
    IF x.neg = y.neg
    THEN Dbl(x.neg, Round53(MagAdd(Mag(x), Mag(y))))
    ELSE IF MagLess(Mag(x), Mag(y))
         THEN Dbl(y.neg, Round53(MagSub(Mag(y), Mag(x))))
         ELSE Dbl(x.neg, Round53(MagSub(Mag(x), Mag(y))))

FSub(x, y) == FAdd(x, FNeg(y))

FLess(x, y) ==
    IF x.neg # y.neg THEN x.neg
    ELSE IF x.neg THEN MagLess(Mag(y), Mag(x)) ELSE MagLess(Mag(x), Mag(y))

\* Python's max(a, b): b when b > a, else a
FMax(a, b) == IF FLess(a, b) THEN b ELSE a

\* k/16 as a double (exact)
Sixteenths(k) == Dbl(FALSE, <<k * 2^12, 0, 0>>)

\* the literals of main.py
D_1_0 == Dbl(FALSE, <<65536, 0, 0>>)            \* 1.0
D_0_1 == Dbl(FALSE, <<6553, 629145, 629146>>)   \* 0.1 = 7205759403792794 * 2^-56
D_1_5 == Dbl(FALSE, <<98304, 0, 0>>)            \* 1.5


(***************************************************************************)
(* The visualizer plug-ins.  The registry of the model holds three of the  *)
(* repository's types, in the order pkgutil.iter_modules yields them; the  *)
(* plug-in specification holds two others.                                 *)
(***************************************************************************)
AllTypes == <<"flame", "fractal_universe", "stick_figure">>

PluginTypes == <<"guitar_tuner", "neural_dreamscape_lite">>

NoKey == "<none>"
\* the keys the model's terminal delivers: the six global keys, Flame's two
\* width keys, and "x", which nobody binds
Keys == {"q", "m", " ", "+", "=", "-", "w", "W", "x"}

Min(a, b) == IF a < b THEN a ELSE b
Max(a, b) == IF a > b THEN a ELSE b

\* the instance state a constructor leaves.  anim stands for the fields that
\* draw rewrites every frame (flame_grid, zoom/rotation, phase): "initial" as
\* constructed or as setup() left them, "advanced" once a draw has run.
Construct(t) ==
    CASE t = "flame" ->
           [type |-> t, setup_calls |-> 0, anim |-> "initial",
            flame_width |-> 80, flame_height |-> 30]
      [] t = "fractal_universe" ->
           [type |-> t, setup_calls |-> 0, anim |-> "initial",
            julia_mode |-> FALSE, zoom_steps |-> 0]
      [] t = "stick_figure" ->
           [type |-> t, setup_calls |-> 0, anim |-> "initial",
            dance_mode |-> 0]
      [] t = "guitar_tuner" ->          \* guitar_tuner.py 20-24
           [type |-> t, setup_calls |-> 0, anim |-> "initial",
            selected_string |-> "E2", string_index |-> 0, needle |-> "centred"]
      [] t = "neural_dreamscape_lite" ->   \* neural_dreamscape_lite.py 12-32
           [type |-> t, setup_calls |-> 0, anim |-> "initial",
            field |-> "None", color_mode |-> 0, particle_mode |-> 0,
            dense |-> FALSE, show_info |-> TRUE]

\* load_visualizers: one instance of every type whose import and construction
\* did not raise, in module order
load_visualizers(failed) ==
    LET ok == SelectSeq(AllTypes, LAMBDA t : t \notin failed)
    IN  [i \in 1..Len(ok) |-> Construct(ok[i])]

\* setup(): Flame re-allocates its grids; the others only initialise fields
setup(v) ==
    IF v.type = "flame"
    THEN [v EXCEPT !.setup_calls = @ + 1, !.anim = "initial"]
    ELSE [v EXCEPT !.setup_calls = @ + 1]

\* draw(): advances the animation state of the instance it is called on;
\* Guitar Tuner moves its needle, Neural Dreamscape Lite allocates its field
\* on the first call (neural_dreamscape_lite.py 111-122)
draw(v) ==
    CASE v.type = "guitar_tuner" -> [v EXCEPT !.anim = "advanced", !.needle = "moved"]
      [] v.type = "neural_dreamscape_lite" ->
           [v EXCEPT !.anim = "advanced", !.field = "array"]
      [] OTHER -> [v EXCEPT !.anim = "advanced"]

FlameHandleKeypress(v, key) ==
    CASE key = "w" -> setup([v EXCEPT !.flame_width = Min(200, @ + 5)])
      [] key = "W" -> setup([v EXCEPT !.flame_width = Max(20, @ - 5)])
      [] key = "h" -> setup([v EXCEPT !.flame_height = Min(50, @ + 2)])
      [] key = "H" -> setup([v EXCEPT !.flame_height = Max(10, @ - 2)])
      [] OTHER -> v

\* zoom_target is 2.5 / 1.2^zoom_steps; the clamps max(0.01, .) and
\* min(10.0, .) bind at 31 steps in and 8 steps out
FractalHandleKeypress(v, key) ==
    CASE key = "j" -> [v EXCEPT !.julia_mode = ~@]
      [] key \in {"+", "="} -> [v EXCEPT !.zoom_steps = Min(31, @ + 1)]
      [] key = "-" -> [v EXCEPT !.zoom_steps = Max(-8, @ - 1)]
      [] OTHER -> v

\* mutant: the handler re-runs setup() on a key it does not know
StickHandleKeypress_Resets(v, key) ==
    CASE key = "d" -> [v EXCEPT !.dance_mode = (@ + 1) % 3]
      [] OTHER -> setup(v)

StickHandleKeypress(v, key) ==
    CASE key = "d" -> [v EXCEPT !.dance_mode = (@ + 1) % 3]
      [] OTHER -> v

\* a Python value: getkey returns a str, the curses key codes are ints, and
\* == between a str and an int is False
PyStr(s) == [str |-> s]
PyInt(n) == [int |-> n]
PyEq(a, b) == a = b

\* curses.KEY_RIGHT and curses.KEY_LEFT
KEY_RIGHT == PyInt(261)
KEY_LEFT == PyInt(260)

\* guitar_tuner.py 21: list(self.guitar_strings.keys())
string_names == <<"E2", "A2", "D3", "G3", "B3", "E4">>

\* guitar_tuner.py 330-334 and 337-341: the tuner with string i selected
SelectString(v, i) ==
    [v EXCEPT !.string_index = i, !.selected_string = string_names[i + 1],
              !.needle = "centred"]

\* guitar_tuner.py 328-349; key is the str getkey returned
GuitarHandleKeypress(v, key) ==
    IF PyEq(PyStr(key), KEY_RIGHT) \/ PyEq(PyStr(key), PyStr("d"))
                                   \/ PyEq(PyStr(key), PyStr("l"))
    THEN SelectString(v, (v.string_index + 1) % Len(string_names))
    ELSE IF PyEq(PyStr(key), KEY_LEFT) \/ PyEq(PyStr(key), PyStr("a"))
                                       \/ PyEq(PyStr(key), PyStr("h"))
    THEN SelectString(v, (v.string_index - 1 + Len(string_names)) % Len(string_names))
    ELSE v

\* neural_dreamscape_lite.py 62-64: trigger_burst reads self.field.shape first,
\* and raises AttributeError while no draw has allocated the field
HandlerRaises(v, key) ==
    v.type = "neural_dreamscape_lite" /\ key = "b" /\ v.field = "None"

\* neural_dreamscape_lite.py 38-60; a burst adds neurons to the animation
\* state, and a call that raises has changed nothing
LiteHandleKeypress(v, key) ==
    CASE key = "c" -> [v EXCEPT !.color_mode = (@ + 1) % 3]
      [] key = "p" -> [v EXCEPT !.particle_mode = (@ + 1) % 3]
      [] key = "d" -> [v EXCEPT !.dense = ~@]
      [] key = "i" -> [v EXCEPT !.show_info = ~@]
      [] key = "b" -> IF HandlerRaises(v, key) THEN v
                      ELSE [v EXCEPT !.anim = "advanced"]
      [] OTHER -> v

handle_keypress(v, key) ==
    CASE v.type = "flame" -> FlameHandleKeypress(v, key)
      [] v.type = "fractal_universe" -> FractalHandleKeypress(v, key)
      [] v.type = "stick_figure" -> StickHandleKeypress(v, key)
      [] v.type = "guitar_tuner" -> GuitarHandleKeypress(v, key)
      [] v.type = "neural_dreamscape_lite" -> LiteHandleKeypress(v, key)

\* does handle_keypress(v, key) call self.setup()?  (flame.py 136, 140, 144, 148)
CallsSetup(v, key) == v.type = "flame" /\ key \in {"w", "W", "h", "H"}

\* len(self.name), the name the constructor passes to VisualizerBase.__init__
NameLen(t) ==
    CASE t = "flame" -> 5
      [] t = "fractal_universe" -> 16
      [] t = "stick_figure" -> 20
      [] t = "guitar_tuner" -> 12
      [] t = "neural_dreamscape_lite" -> 22

Digits(k) == IF k < 10 THEN 1 ELSE 2

\* the length of the header of main.py 187 for instance v at position i of n:
\* 102 characters of text, the name, the position, the count, and the
\* sensitivity as %.1f, three characters below 9.95
HeaderLen(v, i, n) == 102 + NameLen(v.type) + Digits(i + 1) + Digits(n) + 3

\* a terminal geometry, as getmaxyx returns it
Geometry(h, w) == [h |-> h, w |-> w]

\* addstr(0, 0, text) wraps at the right edge and raises curses.error unless
\* the text ends before the last cell of the window
HeaderFits(v, i, n, g) == HeaderLen(v, i, n) < g.h * g.w

\* must draw raise?  Stick Figure first blanks the cells (y, x) of the window
\* with center_y - 10 <= y < center_y + 10 and center_x - 15 <= x < center_x + 15
\* (stick_figure.py 22-26), and addstr raises curses.error on the last cell of
\* the window
DrawRaises(v, g) ==
    /\ v.type = "stick_figure"
    /\ g.h - 1 < (g.h \div 2) + 10
    /\ g.w - 1 < (g.w \div 2) + 15

(***************************************************************************)
(* Binary64 arithmetic on the values of the analyzer and of the hue        *)
(* phase, whose products leave the 2^-56 grid of the sensitivity.  A       *)
(* natural number is a sequence of 13-bit limbs, least significant first,  *)
(* without leading zero limbs; a wide double is [neg, m], the value        *)
(*     (-1)^neg * m * 2^-WScale.                                           *)
(* Every double the analyzer meets is zero or at least 2^-70 in size, so   *)
(* it is a multiple of 2^-WScale, and the exact sum or product of two of   *)
(* them rounded to 53 significant bits is what the hardware returns.       *)
(***************************************************************************)
BigBase == 2^13
WScale == 10 * 13

RECURSIVE BigTrim(_)
BigTrim(s) ==
    IF s = <<>> \/ s[Len(s)] # 0 THEN s ELSE BigTrim(SubSeq(s, 1, Len(s) - 1))

\* carry propagation over digits that may have reached 2^30
RECURSIVE BigCarry(_, _)
BigCarry(s, c) ==
    IF s = <<>>
    THEN IF c = 0 THEN <<>> ELSE <<c % BigBase>> \o BigCarry(<<>>, c \div BigBase)
    ELSE <<(s[1] + c) % BigBase>> \o BigCarry(Tail(s), (s[1] + c) \div BigBase)

BigLimb(a, i) == IF i <= Len(a) THEN a[i] ELSE 0

BigInt(n) == BigTrim(BigCarry(<<n>>, 0))

BigAdd(a, b) ==
    BigTrim(BigCarry([i \in 1..Max(Len(a), Len(b)) |-> BigLimb(a, i) + BigLimb(b, i)], 0))

RECURSIVE BigBorrow(_, _, _, _)
\* the limbs of a - b from limb i on, with the borrow taken from limb i
BigBorrow(a, b, i, borrow) ==
    IF i > Len(a) THEN <<>>
    ELSE LET d == a[i] - BigLimb(b, i) - borrow
         IN  IF d < 0
             THEN <<d + BigBase>> \o BigBorrow(a, b, i + 1, 1)
             ELSE <<d>> \o BigBorrow(a, b, i + 1, 0)

\* a - b for a >= b
BigSub(a, b) == BigTrim(BigBorrow(a, b, 1, 0))

RECURSIVE BigLessFrom(_, _, _)
BigLessFrom(a, b, i) ==
    IF i = 0 THEN FALSE
    ELSE IF a[i] # b[i] THEN a[i] < b[i]
    ELSE BigLessFrom(a, b, i - 1)

BigLess(a, b) ==
    IF Len(a) # Len(b) THEN Len(a) < Len(b) ELSE BigLessFrom(a, b, Len(a))

RECURSIVE BigDot(_, _, _, _, _)
\* sum of a[i] * b[k + 1 - i] for i in lo..hi
BigDot(a, b, k, lo, hi) ==
    IF lo > hi THEN 0 ELSE a[lo] * b[k + 1 - lo] + BigDot(a, b, k, lo + 1, hi)

BigMul(a, b) ==
    IF a = <<>> \/ b = <<>> THEN <<>>
    ELSE BigTrim(BigCarry([k \in 1..(Len(a) + Len(b) - 1) |->
                              BigDot(a, b, k, Max(1, k + 1 - Len(b)), Min(k, Len(a)))], 0))

BigBitLen(a) == IF a = <<>> THEN 0 ELSE 13 * (Len(a) - 1) + BitLen(a[Len(a)])

\* a * 2^k
BigShl(a, k) ==
    LET q == k \div 13
        r == k % 13
    IN  BigTrim(BigCarry([i \in 1..(Len(a) + q) |->
                            IF i <= q THEN 0 ELSE a[i - q] * 2^r], 0))

\* a \div 2^k
BigShr(a, k) ==
    LET q == k \div 13
        r == k % 13
        n == Len(a) - q
    IN  IF n <= 0 THEN <<>>
        ELSE BigTrim([i \in 1..n |->
                 (a[i + q] \div 2^r) + (BigLimb(a, i + q + 1) % 2^r) * 2^(13 - r)])

BigBit(a, i) == (BigLimb(a, (i \div 13) + 1) \div 2^(i % 13)) % 2

\* a with its lowest drop bits rounded away, ties to even; q is a \div 2^drop
BigRoundAt(a, drop, q) ==
    LET half   == BigBit(a, drop - 1) = 1
        sticky == BigShl(BigShr(a, drop - 1), drop - 1) # a
    IN  BigShl(IF half /\ (sticky \/ BigBit(q, 0) = 1) THEN BigAdd(q, <<1>>) ELSE q,
               drop)

BigRoundTo53(a, drop) == IF drop <= 0 THEN a ELSE BigRoundAt(a, drop, BigShr(a, drop))

\* round a natural number to 53 significant bits, ties to even
BigRound53(a) == BigRoundTo53(a, BigBitLen(a) - 53)

Wide(neg, m) == [neg |-> neg /\ m # <<>>, m |-> m]

WZero == Wide(FALSE, <<>>)

\* the integer n as a double (exact below 2^53)
WInt(n) == Wide(n < 0, BigShl(BigInt(IF n < 0 THEN -n ELSE n), WScale))

WNeg(x) == Wide(~x.neg, x.m)

WAdd(x, y) ==
    IF x.neg = y.neg
    THEN Wide(x.neg, BigRound53(BigAdd(x.m, y.m)))
    ELSE IF BigLess(x.m, y.m)
         THEN Wide(y.neg, BigRound53(BigSub(y.m, x.m)))
         ELSE Wide(x.neg, BigRound53(BigSub(x.m, y.m)))

WSub(x, y) == WAdd(x, WNeg(y))

WMul(x, y) == Wide(x.neg # y.neg, BigShr(BigRound53(BigMul(x.m, y.m)), WScale))

\* x * 2^k and x / 2^k, exact
WTimesPow2(x, k) == Wide(x.neg, BigShl(x.m, k))
WOverPow2(x, k) == Wide(x.neg, BigShr(x.m, k))

WLess(x, y) ==
    IF x.neg # y.neg THEN x.neg
    ELSE IF x.neg THEN BigLess(y.m, x.m) ELSE BigLess(x.m, y.m)

WAbs(x) == Wide(FALSE, x.m)

\* the double of the sensitivity arithmetic as a wide double
WFromDbl(d) ==
    Wide(d.neg, BigShl(BigAdd(BigAdd(BigShl(BigInt(d.hi), 40), BigShl(BigInt(d.mid), 20)),
                              BigInt(d.lo)), WScale - 56))

(***************************************************************************)
(* The spectrum analyzer (main.py 79-97) and the hue phase (main.py 181).  *)
(*                                                                         *)
(* An array is a sequence of runs [n, v], n successive elements of value   *)
(* v, with successive runs of different values: the numpy operations of    *)
(* get_audio_data work element by element, so they work run by run.        *)
(*                                                                         *)
(* An audio block is one of two kinds whose discrete Fourier transform is  *)
(* known in closed form:                                                   *)
(*   "level": sample 0 is level + first, every other sample is level; bin  *)
(*     0 of the transform is CHUNK * level + first, every other bin first, *)
(*     and the floating point transform computes them without rounding;    *)
(*   "tone": the samples of amplitude * sin(2 pi bin n / CHUNK) rounded to *)
(*     int16; bins bin and CHUNK - bin of the transform of the unrounded   *)
(*     sine have magnitude amplitude * CHUNK / 2, every other bin is 0,    *)
(*     and rounding the samples moves no bin by more than CHUNK / 2: with  *)
(*     residual = 1 every bin is taken at that upper limit.                *)
(***************************************************************************)
\* main.py 20
CHUNK == 1024 * 2

\* main.py 30, the double nearest 0.8
smoothing == Wide(FALSE, BigShl(<<3277, 1638, 4915, 6553>>, 78))

\* main.py 181, the double nearest 0.005
hue_step == Wide(FALSE, BigShl(<<3936, 3604, 2621, 7864, 40>>, 65))

W_1_0 == WInt(1)

\* the exponent of a power of two
Log2(n) == BitLen(n) - 1

RECURSIVE ArrayLen(_)
ArrayLen(a) == IF a = <<>> THEN 0 ELSE a[1].n + ArrayLen(Tail(a))

\* the runs of a with equal neighbours joined
RECURSIVE Runs(_)
Runs(a) ==
    IF Len(a) <= 1 THEN a
    ELSE IF a[1].v = a[2].v
         THEN Runs(<<[n |-> a[1].n + a[2].n, v |-> a[1].v]>> \o Tail(Tail(a)))
         ELSE <<a[1]>> \o Runs(Tail(a))

\* np.zeros(n)
zeros(n) == <<[n |-> n, v |-> WZero]>>

\* a[:k]
RECURSIVE Take(_, _)
Take(a, k) ==
    IF k <= 0 \/ a = <<>> THEN <<>>
    ELSE IF a[1].n <= k THEN <<a[1]>> \o Take(Tail(a), k - a[1].n)
    ELSE <<[n |-> k, v |-> a[1].v]>>

\* a cut at the run boundaries of a and of b, two arrays of one length
RECURSIVE Refine(_, _)
Refine(a, b) ==
    IF a = <<>> \/ b = <<>> THEN <<>>
    ELSE LET k  == Min(a[1].n, b[1].n)
             ra == IF a[1].n = k THEN Tail(a)
                   ELSE <<[n |-> a[1].n - k, v |-> a[1].v]>> \o Tail(a)
             rb == IF b[1].n = k THEN Tail(b)
                   ELSE <<[n |-> b[1].n - k, v |-> b[1].v]>> \o Tail(b)
         IN  <<[n |-> k, v |-> a[1].v]>> \o Refine(ra, rb)

\* array * scalar
ArrayTimes(a, c) == Runs([i \in 1..Len(a) |-> [n |-> a[i].n, v |-> WMul(a[i].v, c)]])

\* array / 2^k
ArrayOverPow2(a, k) == Runs([i \in 1..Len(a) |-> [n |-> a[i].n, v |-> WOverPow2(a[i].v, k)]])

\* array + array
ArrayPlus(a, b) ==
    LET x == Refine(a, b)
        y == Refine(b, a)
    IN  Runs([i \in 1..Len(x) |-> [n |-> x[i].n, v |-> WAdd(x[i].v, y[i].v)]])

\* the exact sum of two wide numbers, not rounded
WExactAdd(x, y) ==
    IF x.neg = y.neg THEN Wide(x.neg, BigAdd(x.m, y.m))
    ELSE IF BigLess(x.m, y.m) THEN Wide(y.neg, BigSub(y.m, x.m))
    ELSE Wide(x.neg, BigSub(x.m, y.m))

\* the exact sum of the elements of an array
RECURSIVE ArraySum(_)
ArraySum(a) ==
    IF a = <<>> THEN WZero
    ELSE WExactAdd(Wide(a[1].v.neg, BigMul(a[1].v.m, BigInt(a[1].n))), ArraySum(Tail(a)))

\* the sum s of len elements, rounded once, over len, a power of two
MeanOf(s, len) == WOverPow2(Wide(s.neg, BigRound53(s.m)), Log2(len))

\* np.mean of an array whose length is a power of two
mean(a) == MeanOf(ArraySum(a), ArrayLen(a))

Level(level, first) == [kind |-> "level", level |-> level, first |-> first]
Tone(bin, amplitude, residual) ==
    [kind |-> "tone", bin |-> bin, amplitude |-> amplitude, residual |-> residual]
Silence == Level(0, 0)

\* can stream.read deliver the block: CHUNK samples of int16
IsBlock(b) ==
    IF b.kind = "level"
    THEN b.level \in -32768..32767 /\ (b.level + b.first) \in -32768..32767
    ELSE b.bin \in 1..(CHUNK \div 2 - 1) /\ b.amplitude \in 0..32767 /\ b.residual \in 0..1

\* np.fft.fft(data): CHUNK complex bins
fft(b) ==
    IF b.kind = "level"
    THEN <<[n |-> 1, v |-> [re |-> CHUNK * b.level + b.first, im |-> 0]],
           [n |-> CHUNK - 1, v |-> [re |-> b.first, im |-> 0]]>>
    ELSE LET rest == [re |-> b.residual * (CHUNK \div 2), im |-> 0]
             peak == b.amplitude * (CHUNK \div 2) + b.residual * (CHUNK \div 2)
         IN  SelectSeq(<<[n |-> b.bin, v |-> rest],
                         [n |-> 1, v |-> [re |-> 0, im |-> -peak]],
                         [n |-> CHUNK - 2 * b.bin - 1, v |-> rest],
                         [n |-> 1, v |-> [re |-> 0, im |-> peak]],
                         [n |-> b.bin - 1, v |-> rest]>>,
                       LAMBDA r : r.n > 0)

\* mutant: the real part in place of the magnitude
Magnitude_RealPart(z) == WInt(z.re + z.im)

\* the magnitude of a complex bin that is real or imaginary
Magnitude(z) ==
    CASE z.im = 0 -> WInt(IF z.re < 0 THEN -z.re ELSE z.re)
      [] z.re = 0 -> WInt(IF z.im < 0 THEN -z.im ELSE z.im)

\* np.abs(array)
abs(a) == Runs([i \in 1..Len(a) |-> [n |-> a[i].n, v |-> Magnitude(a[i].v)]])

\* main.py 81-87: the normalized magnitude of the first CHUNK // 2 bins
Normalized(b) == ArrayOverPow2(abs(Take(fft(b), CHUNK \div 2)), Log2(128 * CHUNK))

\* mutant: the weights of the old and the new spectrum are exchanged
Smoothed_Swapped(previous, spectrum) ==
    ArrayPlus(ArrayTimes(previous, WSub(W_1_0, smoothing)),
              ArrayTimes(spectrum, smoothing))

\* main.py 89, with previous_spectrum the smoothed spectrum of the frame before
Smoothed(previous, spectrum) ==
    ArrayPlus(ArrayTimes(previous, smoothing),
              ArrayTimes(spectrum, WSub(W_1_0, smoothing)))

\* mutant: the gain is applied to the spectrum that is carried to the next frame
Carried_Adjusted(smoothed, adjusted) == adjusted

\* what get_audio_data leaves in self.smoothed_spectrum: line 92 writes the
\* adjusted spectrum to a local
Carried(smoothed, adjusted) == smoothed

\* main.py 92
Adjusted(smoothed, s) == ArrayTimes(smoothed, WFromDbl(s))

\* mutant: the mean over a quarter of the bins of the spectrum
EnergyBins_Quarter == (CHUNK \div 2) \div 4

\* main.py 95: the bins that the energy averages
EnergyBins == CHUNK \div 4

\* main.py 95
Energy(adjusted) == WTimesPow2(mean(Take(adjusted, EnergyBins)), 1)

\* x % 1.0 for x >= 0: the fraction of x, which is exact
Mod1(x) == Wide(FALSE, BigSub(x.m, BigShl(BigShr(x.m, WScale), WScale)))

\* mutant: the hue grows without wrapping
HueAdvance_NoWrap(h) == WAdd(h, hue_step)

\* main.py 181
HueAdvance(h) == Mod1(WAdd(h, hue_step))

\* what get_audio_data leaves and returns, given the spectra it computed
AudioResult(previous, smoothed, adjusted) ==
    [previous_spectrum |-> previous,
     smoothed_spectrum |-> Carried(smoothed, adjusted),
     energy |-> Energy(adjusted),
     adjusted_spectrum |-> adjusted]

\* main.py 92-97
AdjustAndMeasure(previous, smoothed, s) ==
    AudioResult(previous, smoothed, Adjusted(smoothed, s))

\* get_audio_data (main.py 79-97) on block b with sensitivity s, where
\* smoothed_before is self.smoothed_spectrum on entry: the fields it leaves and
\* the adjusted spectrum it returns
get_audio_data(b, smoothed_before, s) ==
    AdjustAndMeasure(smoothed_before, Smoothed(smoothed_before, Normalized(b)), s)

(***************************************************************************)
(* The colour helpers of VisualizerBase (visualizer_base.py 40-94) and the *)
(* colour pairs run sets up for them (main.py 99-128).  A colour handle is *)
(* the pair number handed to curses.color_pair and the A_BOLD bit.         *)
(***************************************************************************)
\* main.py 105 and visualizer_base.py 43: the colour count of the full mode
FullColors == 256

\* main.py 112
CubeColors == 6 * 6 * 6

\* setup_colors (main.py 99-128): the pairs init_pair defines, each with the
\* number of its foreground colour and, in the full mode, the levels of entry
\* i = p - 1 of the colour cube (main.py 116-118) and the components init_color
\* gets for them (main.py 121-127)
setup_colors(colors) ==
    IF colors < FullColors
    THEN [p \in 1..Min(colors - 1, 7) |-> [color |-> p]]
    ELSE [p \in 1..CubeColors |->
             LET levels == <<((p - 1) \div 36) % 6, ((p - 1) \div 6) % 6, (p - 1) % 6>>
             IN  [color |-> (p - 1) + 16, levels |-> levels,
                  components |-> [k \in 1..3 |-> (levels[k] * 1000) \div 5]]]

ColorPair(n, bold) == [pair |-> n, bold |-> bold]

\* visualizer_base.py 60-62: min(5, c * 6 // 256)
channel_idx(c) == Min(5, (c * 6) \div 256)

\* mutant: the index of the cube entry without the offset of one
color_idx_NoOffset(r_idx, g_idx, b_idx) == 36 * r_idx + 6 * g_idx + b_idx

\* visualizer_base.py 65
color_idx(r_idx, g_idx, b_idx) == 36 * r_idx + 6 * g_idx + b_idx + 1

\* get_color_pair (visualizer_base.py 40-67) of the instance self with
\* curses.COLORS = colors.  Lines 46-47 test (r + g + b) / 3 < 85: the
\* quotient of an integer by 3 is below 85 exactly when the integer is below
\* 3 * 85
get_color_pair(self, colors, r, g, b) ==
    IF colors < FullColors
    THEN IF (r + g + b) < 3 * 85
         THEN CASE r > g /\ r > b -> ColorPair(1, FALSE)
                [] g > r /\ g > b -> ColorPair(2, FALSE)
                [] b > r /\ b > g -> ColorPair(4, FALSE)
                [] OTHER -> ColorPair(0, FALSE)
         ELSE CASE r > g /\ r > b -> ColorPair(1, TRUE)
                [] g > r /\ g > b -> ColorPair(2, TRUE)
                [] b > r /\ b > g -> ColorPair(4, TRUE)
                [] r > 200 /\ g > 200 /\ b > 200 -> ColorPair(7, TRUE)
                [] OTHER -> ColorPair(3, FALSE)
    ELSE ColorPair(color_idx(channel_idx(r), channel_idx(g), channel_idx(b)), FALSE)

\* the value of a natural number given by its limbs
RECURSIVE BigValue(_)
BigValue(a) == IF a = <<>> THEN 0 ELSE a[1] + BigBase * BigValue(Tail(a))

\* int(x) of a double: its integer part, toward zero
int(x) == IF x.neg THEN -BigValue(BigShr(x.m, WScale)) ELSE BigValue(BigShr(x.m, WScale))

\* x % 2 for x >= 0, which is exact
Mod2(x) == Wide(FALSE, BigSub(x.m, BigShl(BigShr(x.m, WScale + 1), WScale + 1)))

\* visualizer_base.py 77-85: the doubles 1/6, 2/6, 3/6, 4/6 and 5/6
Sixths ==
    <<Wide(FALSE, BigShl(<<5120, 2730, 5461, 2730, 1365>>, 65)),
      Wide(FALSE, BigShl(<<2048, 5461, 2730, 5461, 2730>>, 65)),
      WOverPow2(WInt(1), 1),
      Wide(FALSE, BigShl(<<4096, 2730, 5461, 2730, 5461>>, 65)),
      Wide(FALSE, BigShl(<<4096, 5461, 2730, 5461, 6826>>, 65))>>

\* visualizer_base.py 77-88: the sector of hue h in [0, 1], 1..6
RECURSIVE SectorFrom(_, _)
SectorFrom(h, k) ==
    IF k > 5 THEN 6
    ELSE IF WLess(h, Sixths[k]) THEN k ELSE SectorFrom(h, k + 1)

Sector(h) == SectorFrom(h, 1)

\* visualizer_base.py 78-88: r, g, b before m is added, from c, x and 0
SectorRgb(k, c, x) ==
    CASE k = 1 -> <<c, x, WZero>>
      [] k = 2 -> <<x, c, WZero>>
      [] k = 3 -> <<WZero, c, x>>
      [] k = 4 -> <<WZero, x, c>>
      [] k = 5 -> <<x, WZero, c>>
      [] k = 6 -> <<c, WZero, x>>

\* visualizer_base.py 90-92: int((t + m) * 255)
Channel(t, m) == int(WMul(WAdd(t, m), WInt(255)))

\* visualizer_base.py 73-92 for the hue h of line 72, a saturation and a
\* value: the integers r, g, b handed to get_color_pair
ChannelsOf(h, c, x, m) ==
    [k \in 1..3 |-> Channel(SectorRgb(Sector(h), c, x)[k], m)]

HsvToRgb(h, s, v) ==
    ChannelsOf(h,
               WMul(v, s),
               WMul(WMul(v, s),
                    WSub(W_1_0, WAbs(WSub(Mod2(WMul(h, WInt(6))), W_1_0)))),
               WSub(v, WMul(v, s)))

\* mutant: the hue is shifted for every instance but a Flame
hsv_to_color_pair_Stateful(self, colors, h, s, v) ==
    LET rgb == HsvToRgb(Mod1(WAdd(h, IF self.type = "flame" THEN WZero
                                     ELSE WOverPow2(WInt(1), 1))), s, v)
    IN  get_color_pair(self, colors, rgb[1], rgb[2], rgb[3])

\* hsv_to_color_pair (visualizer_base.py 69-94) of the instance self with
\* curses.COLORS = colors, for h >= 0: line 72 is h % 1.0
hsv_to_color_pair(self, colors, h, s, v) ==
    LET rgb == HsvToRgb(Mod1(h), s, v)
    IN  get_color_pair(self, colors, rgb[1], rgb[2], rgb[3])

(***************************************************************************)
(* The Particles plug-in (visualizers/particles.py), by the number of its  *)
(* particles.                                                              *)
(***************************************************************************)
\* particles.py 16-17: the number of particles a draw appends, given
\* len(self.particles), self.max_particles and the energy, a double
SpawnCount(n, max, e) ==
    IF n < max /\ WLess(WFromDbl(D_0_1), e) THEN int(WMul(e, WInt(10))) ELSE 0

\* particles.py 59-66: self.max_particles after handle_keypress(key)
ParticlesHandleKeypress(max, key) ==
    CASE key = "p" -> Min(500, max + 50)
      [] key = "P" -> Max(50, max - 50)
      [] OTHER -> max

(***************************************************************************)
(* draw_line of the stick figure (visualizers/stick_figure.py 148-172).    *)
(***************************************************************************)
abs_(n) == IF n < 0 THEN -n ELSE n

\* stick_figure.py 150-157: the locals when the loop is entered, for integer
\* end points in a window of the given height and width
draw_line(x1, y1, x2, y2, height, width) ==
    [x1 |-> x1, y1 |-> y1, x2 |-> x2, y2 |-> y2,
     dx |-> abs_(x2 - x1), dy |-> abs_(y2 - y1),
     sx |-> IF x1 < x2 THEN 1 ELSE -1,
     sy |-> IF y1 < y2 THEN 1 ELSE -1,
     err |-> abs_(x2 - x1) - abs_(y2 - y1),
     height |-> height, width |-> width,
     at |-> "loop", steps |-> 0, written |-> 0]

\* stick_figure.py 160: is the cell inside the window?
InWindow(l) == 0 <= l.y1 /\ l.y1 < l.height /\ 0 <= l.x1 /\ l.x1 < l.width

\* addstr raises curses.error on the last cell of the window
AddstrRaises(l) == l.y1 = l.height - 1 /\ l.x1 = l.width - 1

\* mutant: the y move is made only when the x move is not
Advance_Either(l) ==
    IF 2 * l.err > -l.dy
    THEN [l EXCEPT !.err = @ - l.dy, !.x1 = @ + l.sx]
    ELSE [l EXCEPT !.err = @ + l.dx, !.y1 = @ + l.sy]

\* stick_figure.py 166-172: the x move and then the y move, both tests made
\* on e2 = 2 * err of line 166
Advance(l) ==
    LET moved == IF 2 * l.err > -l.dy
                 THEN [l EXCEPT !.err = @ - l.dy, !.x1 = @ + l.sx]
                 ELSE l
    IN  IF 2 * l.err < l.dx
        THEN [moved EXCEPT !.err = @ + l.dx, !.y1 = @ + l.sy]
        ELSE moved

\* one turn of the loop (stick_figure.py 159-172)
LoopTurn(l) ==
    IF InWindow(l) /\ AddstrRaises(l) THEN [l EXCEPT !.at = "raised"]
    ELSE IF l.x1 = l.x2 /\ l.y1 = l.y2
    THEN [l EXCEPT !.at = "returned",
                   !.written = IF InWindow(l) THEN @ + 1 ELSE @]
    ELSE [Advance(l) EXCEPT !.steps = @ + 1,
                            !.written = IF InWindow(l) THEN @ + 1 ELSE @]

(***************************************************************************)
(* The session.                                                            *)
(***************************************************************************)
VARIABLES
    pc,                        \* "import", "load", "open", "run", "keys", "frame",
                               \* "finally", "wrapper", "exited"
    visualizers,               \* self.visualizers: the instances, 1-based
    current_visualizer_index,  \* self.current_visualizer_index, 0-based
    pause,                     \* self.pause
    sensitivity,               \* self.sensitivity, a double
    key,                       \* history: the key this iteration polled, or NoKey
    calls,                     \* history: the calls the last step made, in order
    teardown,                  \* history: the release calls made so far, in order
    exit_cause,                \* "none", "quit", or the call whose exception left run
    sens_run,                  \* history: the sensitivity keys pressed so far
    left_as,                   \* history: each instance as it was when last left
    discovery,                 \* history: the module load_visualizers is at, the
                               \* constructor calls made and the exceptions raised
    hue_offset,                \* self.hue_offset, a wide double
    smoothed_spectrum,         \* self.smoothed_spectrum, an array
    previous_spectrum,         \* self.previous_spectrum, an array
    energy,                    \* self.energy, a wide double
    draw_args,                 \* history: the arguments of the last draw, if any
    blocks_read,               \* history: the number of blocks read
    last_block,                \* history: the block read last
    COLORS,                    \* curses.COLORS, set by start_color()
    color_calls,               \* history: two calls of the colour helpers, an
                               \* earlier one and the latest
    particles,                 \* len(self.particles) of the Particles instance
    max_particles,             \* self.max_particles of the Particles instance
    line                       \* the locals of a draw_line call in progress

\* the fields the frame step computes
frame == <<hue_offset, smoothed_spectrum, previous_spectrum, energy, draw_args,
           blocks_read, last_block>>

\* the state of the plug-ins that the session specifications do not follow
plugins == <<COLORS, color_calls, particles, max_particles, line>>

vars == <<pc, visualizers, current_visualizer_index, pause, sensitivity, key,
          calls, teardown, exit_cause, sens_run, left_as, discovery, frame,
          plugins>>

N == Len(visualizers)

\* the mark of left_as for the instance that is active now
Active == [type |-> "active"]

sensitivity_step == D_0_1

TypeSet == {AllTypes[i] : i \in 1..Len(AllTypes)}

\* the history of a discovery in which the constructions of failed raised at
\* main.py 69 and nothing else did
Discovered(failed) ==
    [next |-> Len(AllTypes) + 1, step |-> "import",
     constructed |-> [t \in TypeSet |-> IF t \in failed THEN 1 ELSE 2],
     raised |-> [t \in TypeSet |-> IF t \in failed THEN "construct" ELSE "none"]]

\* the plug-ins before anything has called them: no colour call yet, the
\* Particles instance as its __init__ leaves it (particles.py 7-10), no
\* draw_line call in progress; curses.COLORS is what start_color will find,
\* the full mode unless a specification says otherwise
InitPlugins ==
    /\ color_calls = <<>>
    /\ particles = 0
    /\ max_particles = 100
    /\ line = <<>>

\* the fields __init__ sets apart from the registry (main.py 19-42)
InitFields ==
    /\ current_visualizer_index = 0
    /\ pause = FALSE
    /\ sensitivity = D_1_0
    /\ key = NoKey
    /\ calls = <<>>
    /\ teardown = <<>>
    /\ exit_cause = "none"
    /\ sens_run = [kind |-> "none", n |-> 0]
    /\ hue_offset = WZero
    /\ smoothed_spectrum = zeros(CHUNK \div 2)
    /\ previous_spectrum = zeros(CHUNK \div 2)
    /\ energy = WZero
    /\ draw_args = <<>>
    /\ blocks_read = 0
    /\ last_block = Silence
    /\ InitPlugins

\* __init__ (main.py 18-53): the state when curses.wrapper calls run
Init ==
    /\ pc = "run"
    /\ \E failed \in SUBSET TypeSet :
           /\ visualizers = load_visualizers(failed)
           /\ discovery = Discovered(failed)
    /\ left_as = [i \in 1..N |-> Active]
    /\ InitFields
    /\ COLORS = FullColors

\* mutant: only '+' raises the sensitivity, '=' falls through to the visualizer
KeyBranch_PlusOnly(k) ==
    CASE k = "q" -> "quit"
      [] k = "m" -> "mode"
      [] k = " " -> "pause"
      [] k = "+" -> "increase"
      [] k = "-" -> "decrease"
      [] OTHER -> "visualizer"

\* the if/elif chain of the key step (main.py 153-166)
KeyBranch(k) ==
    CASE k = "q" -> "quit"
      [] k = "m" -> "mode"
      [] k = " " -> "pause"
      [] k = "+" \/ k = "=" -> "increase"
      [] k = "-" -> "decrease"
      [] OTHER -> "visualizer"

\* mutant: the index stops at the last instance instead of wrapping
cycle_NoWrap(i, n) == IF i + 1 < n THEN i + 1 ELSE i

\* mutant: the index is advanced and not reduced modulo the length
cycle_NoModulo(i, n) == i + 1

\* main.py 156
cycle(i, n) == (i + 1) % n

\* main.py 160
IncreaseSensitivity(s) == FAdd(s, sensitivity_step)

\* mutant: the decrease without its floor
DecreaseSensitivity_NoFloor(s) == FSub(s, sensitivity_step)

\* main.py 162
DecreaseSensitivity(s) == FMax(D_0_1, FSub(s, sensitivity_step))

\* mutant: off by one, the instance after the selected one gets the key and the frame
ActiveIndex_Next ==
    IF N = 0 THEN current_visualizer_index ELSE (current_visualizer_index + 1) % N

\* mutant: the instance before the selected one gets the key and the frame
ActiveIndex_Previous ==
    IF N = 0 THEN current_visualizer_index ELSE (current_visualizer_index + N - 1) % N

\* main.py 165 and 184: the instance that gets the key or the frame
ActiveIndex == current_visualizer_index

\* mutant: the frame is rendered whether paused or not
ShouldRender_Always == TRUE

\* main.py 170
ShouldRender == ~pause

\* mutant: the stream is stopped and closed, PyAudio is not terminated
Cleanup_NoTerminate == <<"stop_stream", "close">>

\* main.py 199-201
Cleanup == <<"stop_stream", "close", "terminate">>

\* history: a run of sensitivity keys of one kind since the start
RunAfter(kind) ==
    IF sens_run.kind \in {"none", kind} /\ sens_run.n < MaxRun
    THEN [kind |-> kind, n |-> sens_run.n + 1]
    ELSE [kind |-> "other", n |-> 0]

\* history: instance old is left as it is now, instance new becomes active
LeftAfterSwitch(old, new) ==
    [j \in 1..N |-> IF j = new + 1 THEN Active
                    ELSE IF j = old + 1 THEN visualizers[j]
                    ELSE left_as[j]]

SetupCall(i) == <<"setup", i>>
DrawCall(i) == <<"draw", i>>
KeyCall(i, k) == <<"handle_keypress", i, k>>

\* a call named name is among the calls cs
Made(cs, name) == \E j \in 1..Len(cs) : cs[j][1] = name

\* run, up to the loop (main.py 131-146): curses and colour set-up, then
\* setup() on every instance in order.  An exception here is outside the
\* try/finally and leaves run at once.
RunStartup ==
    /\ pc = "run"
    /\ \E raise_at \in 0..(N + 1) :
          \* 0: curs_set or setup_colors raises; i in 1..N: setup() of instance
          \* i raises; N + 1: nothing raises
          LET done == IF raise_at = N + 1 THEN N ELSE raise_at
              vs   == [i \in 1..N |->
                         IF i <= done THEN setup(visualizers[i]) ELSE visualizers[i]]
          IN  /\ visualizers' = vs
              /\ calls' = [i \in 1..done |-> SetupCall(i - 1)]
              /\ left_as' = [i \in 1..N |-> IF i = 1 THEN Active ELSE vs[i]]
              /\ IF raise_at = N + 1
                 THEN pc' = "keys" /\ exit_cause' = exit_cause
                 ELSE /\ pc' = "wrapper"
                      /\ exit_cause' = IF raise_at = 0 THEN "curses_setup" ELSE "setup"
    /\ UNCHANGED <<current_visualizer_index, pause, sensitivity, key, teardown, sens_run>>
    /\ UNCHANGED <<discovery, frame, plugins>>

\* the bounds of the model on what the terminal delivers
Offered(k) ==
    /\ k \in {"+", "="} => FLess(sensitivity, Sixteenths(MaxSens16))
    /\ (N > 0 /\ CallsSetup(visualizers[current_visualizer_index + 1], k)) =>
           visualizers[current_visualizer_index + 1].setup_calls < MaxSetups

\* mutant: the exception of a key leaves the loop
AfterKeyError_Propagates == "finally"

\* main.py 167-168: `except: pass` swallows whatever the key step raised, and
\* the iteration goes on with its frame step
AfterKeyError == "frame"

\* the key step of one iteration (main.py 150-168) when getkey returns k, or
\* raises for NoKey
KeyStep(k) ==
    /\ key' = k
    /\ UNCHANGED <<teardown, discovery, frame, plugins>>
    /\ LET branch == IF k = NoKey THEN "no_input" ELSE KeyBranch(k)
       IN
       CASE branch = "no_input" ->   \* getkey raises curses.error, swallowed at 167
              /\ pc' = AfterKeyError
              /\ calls' = <<<<"getkey">>>>
              /\ UNCHANGED <<visualizers, current_visualizer_index, pause,
                             sensitivity, exit_cause, sens_run, left_as>>
         [] branch = "quit" ->
              /\ pc' = "finally"
              /\ exit_cause' = "quit"
              /\ calls' = <<<<"getkey">>>>
              /\ UNCHANGED <<visualizers, current_visualizer_index, pause,
                             sensitivity, sens_run, left_as>>
         [] branch = "mode" ->       \* with no visualizers the modulo raises, swallowed
              /\ pc' = IF N = 0 THEN AfterKeyError ELSE "frame"
              /\ IF N = 0
                 THEN UNCHANGED <<current_visualizer_index, left_as>>
                 ELSE /\ current_visualizer_index' = cycle(current_visualizer_index, N)
                      /\ left_as' = LeftAfterSwitch(current_visualizer_index,
                                                    cycle(current_visualizer_index, N))
              /\ calls' = <<<<"getkey">>>>
              /\ UNCHANGED <<visualizers, pause, sensitivity, exit_cause, sens_run>>
         [] branch = "pause" ->
              /\ pc' = "frame"
              /\ pause' = ~pause
              /\ calls' = <<<<"getkey">>>>
              /\ UNCHANGED <<visualizers, current_visualizer_index, sensitivity,
                             exit_cause, sens_run, left_as>>
         [] branch = "increase" ->
              /\ pc' = "frame"
              /\ sensitivity' = IncreaseSensitivity(sensitivity)
              /\ sens_run' = RunAfter("inc")
              /\ calls' = <<<<"getkey">>>>
              /\ UNCHANGED <<visualizers, current_visualizer_index, pause,
                             exit_cause, left_as>>
         [] branch = "decrease" ->
              /\ pc' = "frame"
              /\ sensitivity' = DecreaseSensitivity(sensitivity)
              /\ sens_run' = RunAfter("dec")
              /\ calls' = <<<<"getkey">>>>
              /\ UNCHANGED <<visualizers, current_visualizer_index, pause,
                             exit_cause, left_as>>
         [] OTHER ->                 \* 164-166; with no visualizers the lookup raises,
                                     \* and handle_keypress can raise: both swallowed
              /\ pc' = IF N = 0 \/ HandlerRaises(visualizers[ActiveIndex + 1], k)
                       THEN AfterKeyError ELSE "frame"
              /\ IF N = 0
                 THEN /\ calls' = <<<<"getkey">>>>
                      /\ UNCHANGED visualizers
                 ELSE LET i == ActiveIndex
                      IN  /\ visualizers' = [visualizers EXCEPT
                                 ![i + 1] = handle_keypress(@, k)]
                          /\ calls' = <<<<"getkey">>, KeyCall(i, k)>> \o
                                 (IF CallsSetup(visualizers[i + 1], k)
                                  THEN <<SetupCall(i)>> ELSE <<>>)
              /\ UNCHANGED <<current_visualizer_index, pause, sensitivity,
                             exit_cause, sens_run, left_as>>

\* the key step with any key of the model's terminal
HandleKeypress ==
    /\ pc = "keys"
    /\ \E k \in Keys \cup {NoKey} : Offered(k) /\ KeyStep(k)

\* the control flow of the frame step of an unpaused iteration (main.py
\* 170-196): the calls it makes, in order, and where an exception leaves it.
\* maxyx is the getmaxyx call as the history records it.
Frame(outcome, maxyx) ==
    /\ LET i     == ActiveIndex
           pre   == <<maxyx, <<"read">>>>
           clear == <<<<"erase">>>>
       IN  CASE outcome = "read" ->       \* stream.read raises (line 81)
                  /\ calls' = pre
                  /\ pc' = "finally" /\ exit_cause' = "read"
                  /\ UNCHANGED visualizers
             [] N = 0 ->                  \* the lookup at 184 raises IndexError
                  /\ calls' = pre \o clear
                  /\ pc' = "finally" /\ exit_cause' = "lookup"
                  /\ UNCHANGED visualizers
             [] outcome = "addstr" ->     \* the header's addstr at 187 raises
                  /\ calls' = pre \o clear \o <<<<"addstr">>>>
                  /\ pc' = "finally" /\ exit_cause' = "addstr"
                  /\ UNCHANGED visualizers
             [] outcome = "draw" ->       \* draw at 190 raises
                  /\ calls' = pre \o clear \o <<<<"addstr">>, DrawCall(i)>>
                  /\ visualizers' = [visualizers EXCEPT ![i + 1] = draw(@)]
                  /\ pc' = "finally" /\ exit_cause' = "draw"
             [] OTHER ->
                  /\ calls' = pre \o clear \o
                         <<<<"addstr">>, DrawCall(i), <<"refresh">>, <<"sleep">>>>
                  /\ visualizers' = [visualizers EXCEPT ![i + 1] = draw(@)]
                  /\ pc' = "keys" /\ exit_cause' = exit_cause
    /\ key' = NoKey
    /\ UNCHANGED <<current_visualizer_index, pause, sensitivity, teardown,
                   sens_run, left_as, discovery, plugins>>

\* the frame step in the session specification, which follows the control
\* flow of the frame and not the fields it computes: these are followed by
\* the analyzer and the frame specifications below
RenderFrame ==
    /\ pc = "frame"
    /\ ShouldRender
    /\ \E outcome \in {"ok", "read", "addstr", "draw"} : Frame(outcome, <<"getmaxyx">>)
    /\ UNCHANGED frame

\* the frame step of a paused iteration: the body of `if not self.pause` is skipped
SkipFrame ==
    /\ pc = "frame"
    /\ ~ShouldRender
    /\ pc' = "keys"
    /\ calls' = <<>>
    /\ key' = NoKey
    /\ UNCHANGED <<visualizers, current_visualizer_index, pause, sensitivity,
                   teardown, exit_cause, sens_run, left_as, discovery, frame,
                   plugins>>

\* the finally block of run (main.py 197-201)
Finally ==
    /\ pc = "finally"
    /\ teardown' = teardown \o Cleanup
    /\ pc' = "wrapper"
    /\ calls' = <<>>
    /\ UNCHANGED <<visualizers, current_visualizer_index, pause, sensitivity, key,
                   exit_cause, sens_run, left_as, discovery, frame, plugins>>

\* curses.wrapper restores the terminal when run returns or raises (main.py 206)
WrapperExit ==
    /\ pc = "wrapper"
    /\ teardown' = Append(teardown, "endwin")
    /\ pc' = "exited"
    /\ calls' = <<>>
    /\ UNCHANGED <<visualizers, current_visualizer_index, pause, sensitivity, key,
                   exit_cause, sens_run, left_as, discovery, frame, plugins>>

Next ==
    \/ RunStartup
    \/ HandleKeypress
    \/ RenderFrame
    \/ SkipFrame
    \/ Finally
    \/ WrapperExit

Spec == Init /\ [][Next]_vars

(***************************************************************************)
(* Discovery: the import of the package (main.py 15) and load_visualizers  *)
(* (main.py 55-77), one step per statement that can raise.                 *)
(***************************************************************************)
InitLoad ==
    /\ pc = "import"
    /\ visualizers = <<>>
    /\ left_as = <<>>
    /\ discovery = [next |-> 1, step |-> "import",
                    constructed |-> [t \in TypeSet |-> 0],
                    raised |-> [t \in TypeSet |-> "none"]]
    /\ InitFields
    /\ COLORS = FullColors

\* the rest of the state, which discovery does not touch
session == <<current_visualizer_index, pause, sensitivity, key, calls, teardown,
             sens_run, frame, plugins>>

\* `import visualizers` (main.py 15) runs visualizers/__init__.py, which imports
\* the modules one after the other outside any try: the first that raises ends
\* the process before there is a session
ImportPackage ==
    /\ pc = "import"
    /\ \E r \in 0..Len(AllTypes) :
          IF r = 0
          THEN pc' = "load" /\ UNCHANGED <<discovery, exit_cause>>
          ELSE /\ pc' = "exited"
               /\ exit_cause' = "import"
               /\ discovery' = [discovery EXCEPT !.raised[AllTypes[r]] = "import"]
    /\ UNCHANGED <<visualizers, left_as, session>>

\* mutant: the try encloses the loop, and the first exception ends discovery
NextModule_Abort(raised) == IF raised THEN Len(AllTypes) + 1 ELSE discovery.next + 1

\* the module the loop of main.py 60 goes on with after the module at
\* discovery.next: the try encloses one module (main.py 61-72)
NextModule(raised) == discovery.next + 1

\* main.py 63: the module was imported with the package and comes from sys.modules
LoadImport ==
    /\ pc = "load"
    /\ discovery.next <= Len(AllTypes)
    /\ discovery.step = "import"
    /\ discovery' = [discovery EXCEPT !.step = "construct"]
    /\ UNCHANGED <<pc, visualizers, left_as, exit_cause, session>>

\* main.py 66-69: obj() is constructed and appended, or raises into line 71
LoadConstruct ==
    /\ pc = "load"
    /\ discovery.next <= Len(AllTypes)
    /\ discovery.step = "construct"
    /\ LET t == AllTypes[discovery.next]
       IN  \E raises \in BOOLEAN :
              IF raises
              THEN /\ discovery' = [discovery EXCEPT
                          !.constructed[t] = @ + 1,
                          !.raised[t] = "construct",
                          !.step = "import",
                          !.next = NextModule(TRUE)]
                   /\ UNCHANGED visualizers
              ELSE /\ discovery' = [discovery EXCEPT
                          !.constructed[t] = @ + 1,
                          !.step = "announce"]
                   /\ visualizers' = Append(visualizers, Construct(t))
    /\ UNCHANGED <<pc, left_as, exit_cause, session>>

\* main.py 70: obj() is constructed again for its name, or raises into line 71
LoadAnnounce ==
    /\ pc = "load"
    /\ discovery.next <= Len(AllTypes)
    /\ discovery.step = "announce"
    /\ LET t == AllTypes[discovery.next]
       IN  \E raises \in BOOLEAN :
              discovery' = [discovery EXCEPT
                  !.constructed[t] = @ + 1,
                  !.raised[t] = IF raises THEN "announce" ELSE @,
                  !.step = "import",
                  !.next = NextModule(raises)]
    /\ UNCHANGED <<pc, visualizers, left_as, exit_cause, session>>

\* main.py 74-77 and 41-42: the list, empty or not, becomes self.visualizers
LoadReturn ==
    /\ pc = "load"
    /\ discovery.next > Len(AllTypes)
    /\ pc' = "open"
    /\ left_as' = [i \in 1..N |-> Active]
    /\ UNCHANGED <<visualizers, discovery, exit_cause, session>>

\* main.py 45-53: PyAudio is started and the input stream opened; an exception
\* leaves __init__ and ends the process before curses.wrapper is called
OpenStream ==
    /\ pc = "open"
    /\ \E raises \in BOOLEAN :
          IF raises
          THEN pc' = "exited" /\ exit_cause' = "audio"
          ELSE pc' = "run" /\ UNCHANGED exit_cause
    /\ UNCHANGED <<visualizers, left_as, discovery, session>>

NextLoad ==
    \/ ImportPackage
    \/ LoadImport
    \/ LoadConstruct
    \/ LoadAnnounce
    \/ LoadReturn
    \/ OpenStream

SpecLoad == InitLoad /\ [][NextLoad]_vars

(***************************************************************************)
(* The frame step with the fields it computes.  Two specifications follow  *)
(* them: SpecAnalyzer over a few frames of different blocks and            *)
(* sensitivities, SpecFrames over many frames of silence in terminals of   *)
(* different sizes.                                                        *)
(***************************************************************************)
\* what can happen to the frame in a terminal of geometry g: stream.read can
\* raise; the header's addstr raises when the header does not fit; draw raises
\* when it must, and can raise otherwise
Outcomes(g) ==
    {"read"} \cup
    (IF N = 0 THEN {"ok"}
     ELSE IF ~HeaderFits(visualizers[ActiveIndex + 1], ActiveIndex, N, g) THEN {"addstr"}
     ELSE IF DrawRaises(visualizers[ActiveIndex + 1], g) THEN {"draw"}
     ELSE {"ok", "draw"})

\* main.py 172-190: the fields the frame step writes when stream.read delivers
\* block b in a terminal of geometry g
FrameFields(b, g, outcome) ==
    IF outcome = "read"
    THEN UNCHANGED frame
    ELSE \E a \in {get_audio_data(b, smoothed_spectrum, sensitivity)} :
         \E h \in {HueAdvance(hue_offset)} :
             /\ previous_spectrum' = a.previous_spectrum
             /\ smoothed_spectrum' = a.smoothed_spectrum
             /\ energy' = a.energy
             /\ hue_offset' = h
             /\ blocks_read' = blocks_read + 1
             /\ last_block' = b
             /\ draw_args' =
                    IF N > 0 /\ outcome \in {"ok", "draw"}
                    THEN <<[spectrum |-> a.adjusted_spectrum, height |-> g.h,
                            width |-> g.w, energy |-> a.energy, hue_offset |-> h]>>
                    ELSE draw_args

\* the blocks the analyzer specification reads
Blocks ==
    {Silence, Level(-32768, 0), Level(100, 12345), Tone(10, 32767, 1)}

\* the keys the analyzer specification's terminal delivers
AnalyzerKeys == {NoKey, " ", "+", "-"}

GainOffered(k) ==
    k \in {"+", "=", "-"} => (sens_run.kind # "other" /\ sens_run.n < MaxGainKeys)

InitAnalyzer == Init /\ N = Len(AllTypes)

AnalyzerKeypress ==
    /\ pc = "keys"
    /\ \E k \in AnalyzerKeys : Offered(k) /\ GainOffered(k) /\ KeyStep(k)

AnalyzerFrame ==
    /\ pc = "frame"
    /\ ShouldRender
    /\ blocks_read < MaxFrames
    /\ \E b \in Blocks :
          /\ IsBlock(b)
          /\ \E outcome \in Outcomes(Geometry(24, 80)) :
                /\ Frame(outcome, <<"getmaxyx", 24, 80>>)
                /\ FrameFields(b, Geometry(24, 80), outcome)

NextAnalyzer ==
    \/ RunStartup
    \/ AnalyzerKeypress
    \/ AnalyzerFrame
    \/ SkipFrame
    \/ Finally
    \/ WrapperExit

SpecAnalyzer == InitAnalyzer /\ [][NextAnalyzer]_vars

\* the terminal sizes of the frame specification
Geometries == {Geometry(24, 80), Geometry(20, 30), Geometry(1, 80)}

InitFrames == Init /\ N <= 1

FramesKeypress ==
    /\ pc = "keys"
    /\ \E k \in {NoKey, " "} : KeyStep(k)

FramesFrame ==
    /\ pc = "frame"
    /\ ShouldRender
    /\ blocks_read < MaxHueFrames
    /\ \E g \in Geometries :
          \E outcome \in Outcomes(g) :
             /\ Frame(outcome, <<"getmaxyx", g.h, g.w>>)
             /\ FrameFields(Silence, g, outcome)

NextFrames ==
    \/ RunStartup
    \/ FramesKeypress
    \/ FramesFrame
    \/ SkipFrame
    \/ Finally
    \/ WrapperExit

SpecFrames == InitFrames /\ [][NextFrames]_vars

(***************************************************************************)
(* The colour helpers in a session.  The draw of a frame calls them on the *)
(* active instance; the specification follows one call of the session and  *)
(* a later call of hsv_to_color_pair with the same arguments, made from    *)
(* the draw of the same or of a later frame by whichever instance is       *)
(* active then.  It stops where run is left.                               *)
(***************************************************************************)
\* curses.COLORS of the terminals of the colour specification
ColorCounts == {8, FullColors}

\* the channels get_color_pair is called with: the ends of 0..255 for each
\* channel, and between them values of every level and on both sides of a
\* border of two levels
RedValues == {0, 42, 43, 255}
GreenValues == {0, 86, 128, 255}
BlueValues == {0, 171, 214, 255}

\* the hues, saturations and values hsv_to_color_pair is called with, in
\* eighths: hues in every sector and past 1, saturations and values past 1
HueEighths == {0, 2, 3, 5, 6, 7, 9}
SaturationEighths == {0, 8, 16}
ValueEighths == {1, 8, 12}

Eighths(n) == WOverPow2(WInt(n), 3)

\* the record of a call: the method, the calling instance's position in the
\* registry, the number of blocks read when it was made, the arguments and
\* the handle returned
ColorCall(fn, args, result) ==
    [fn |-> fn, self |-> ActiveIndex, at |-> blocks_read, args |-> args,
     result |-> result]

InitColor ==
    /\ pc = "run"
    /\ visualizers = load_visualizers({})
    /\ discovery = Discovered({})
    /\ left_as = [i \in 1..N |-> Active]
    /\ InitFields
    /\ COLORS \in ColorCounts

ColorKeypress ==
    /\ pc = "keys"
    /\ \E k \in {NoKey, "m"} : KeyStep(k)

ColorFrame ==
    /\ pc = "frame"
    /\ ShouldRender
    /\ blocks_read < MaxColorFrames
    /\ \E outcome \in Outcomes(Geometry(24, 80)) :
          /\ Frame(outcome, <<"getmaxyx", 24, 80>>)
          /\ FrameFields(Silence, Geometry(24, 80), outcome)

\* the draw just made called a colour helper
InDraw == pc = "keys" /\ Made(calls, "draw")

\* the methods assign to locals only: nothing but the history changes
ColorCallFrame ==
    UNCHANGED <<pc, visualizers, current_visualizer_index, pause, sensitivity,
                key, calls, teardown, exit_cause, sens_run, left_as, discovery,
                frame, COLORS, particles, max_particles, line>>

GetColorPairCall ==
    /\ InDraw
    /\ color_calls = <<>>
    /\ \E r \in RedValues, g \in GreenValues, b \in BlueValues :
          color_calls' =
              <<ColorCall("get_color_pair", <<r, g, b>>,
                          get_color_pair(visualizers[ActiveIndex + 1], COLORS, r, g, b))>>
    /\ ColorCallFrame

HsvToColorPairCall ==
    /\ InDraw
    /\ color_calls = <<>>
    /\ \E h \in HueEighths, s \in SaturationEighths, v \in ValueEighths :
          color_calls' =
              <<ColorCall("hsv_to_color_pair", <<h, s, v>>,
                          hsv_to_color_pair(visualizers[ActiveIndex + 1], COLORS,
                                            Eighths(h), Eighths(s), Eighths(v)))>>
    /\ ColorCallFrame

\* a later call with the arguments of the first
RepeatHsvCall ==
    /\ InDraw
    /\ Len(color_calls) = 1
    /\ color_calls[1].fn = "hsv_to_color_pair"
    /\ \E a \in {color_calls[1].args} :
          color_calls' =
              Append(color_calls,
                     ColorCall("hsv_to_color_pair", a,
                               hsv_to_color_pair(visualizers[ActiveIndex + 1], COLORS,
                                                 Eighths(a[1]), Eighths(a[2]),
                                                 Eighths(a[3]))))
    /\ ColorCallFrame

NextColor ==
    \/ RunStartup
    \/ ColorKeypress
    \/ ColorFrame
    \/ GetColorPairCall
    \/ HsvToColorPairCall
    \/ RepeatHsvCall

SpecColor == InitColor /\ [][NextColor]_vars

(***************************************************************************)
(* The session with a registry of Guitar Tuner and Neural Dreamscape Lite, *)
(* or what is left of it when constructions failed, and with the keys of   *)
(* these plug-ins among the keys the terminal delivers.                    *)
(***************************************************************************)
PluginTypeSet == {PluginTypes[i] : i \in 1..Len(PluginTypes)}

\* the keys the terminal of the plug-in specification delivers, as getkey
\* returns them: an arrow key arrives as the name of its key code
PluginKeys == {NoKey, "q", "m", " ", "b", "d", "a", "KEY_RIGHT", "KEY_LEFT"}

\* the blocks the plug-in specification reads
PluginBlocks == {Silence, Level(100, 12345)}

InitKeys ==
    /\ pc = "run"
    /\ \E failed \in SUBSET PluginTypeSet :
          /\ visualizers =
                 [i \in 1..Len(SelectSeq(PluginTypes, LAMBDA t : t \notin failed)) |->
                     Construct(SelectSeq(PluginTypes, LAMBDA t : t \notin failed)[i])]
          /\ discovery =
                 [next |-> Len(PluginTypes) + 1, step |-> "import",
                  constructed |-> [t \in PluginTypeSet |-> IF t \in failed THEN 1 ELSE 2],
                  raised |-> [t \in PluginTypeSet |->
                                 IF t \in failed THEN "construct" ELSE "none"]]
    /\ left_as = [i \in 1..N |-> Active]
    /\ InitFields
    /\ COLORS = FullColors

KeysKeypress ==
    /\ pc = "keys"
    /\ \E k \in PluginKeys : KeyStep(k)

KeysFrame ==
    /\ pc = "frame"
    /\ ShouldRender
    /\ blocks_read < MaxKeyFrames
    /\ \E b \in PluginBlocks :
          /\ IsBlock(b)
          /\ \E outcome \in Outcomes(Geometry(24, 80)) :
                /\ Frame(outcome, <<"getmaxyx", 24, 80>>)
                /\ FrameFields(b, Geometry(24, 80), outcome)

NextKeys ==
    \/ RunStartup
    \/ KeysKeypress
    \/ KeysFrame
    \/ SkipFrame
    \/ Finally
    \/ WrapperExit

SpecKeys == InitKeys /\ [][NextKeys]_vars

(***************************************************************************)
(* The Particles instance while it is the active one: the draws of the     *)
(* frames and the keys handed to it.  The terminal is 50 rows of 80        *)
(* columns, in which a particle is on the screen after the update of the   *)
(* draw that appended it (particles.py 20-21, 33-35, 40: it starts at row  *)
(* height - 5 within 10 columns of the centre and moves up by at most 5    *)
(* rows and sideways by at most 2 columns) and alive (its life starts at   *)
(* 0.5 or above and loses 0.02); an older particle goes when the random    *)
(* numbers it was made from say so.                                        *)
(***************************************************************************)
\* the fields of the session, which the calls on a plug-in leave alone
loop == <<pc, visualizers, current_visualizer_index, pause, sensitivity, key,
          calls, teardown, exit_cause, sens_run, left_as, discovery, frame>>

\* the energies of the frames: 0, 1/16, 1/2 and 15/16
ParticleEnergies ==
    {WZero, WOverPow2(WInt(1), 4), WOverPow2(WInt(1), 1), WOverPow2(WInt(15), 4)}

\* the numbers of older particles a draw can remove
Deaths(n) == (0..Min(n, MaxDeaths)) \cup {n}

InitParticles == Init /\ N = Len(AllTypes)

\* draw (particles.py 12-57): append the new particles, update every
\* particle and keep those alive and on the screen
ParticlesDraw ==
    /\ \E e \in ParticleEnergies, died \in Deaths(particles) :
          particles' = (particles - died) + SpawnCount(particles, max_particles, e)
    /\ UNCHANGED <<loop, COLORS, color_calls, max_particles, line>>

ParticlesKeypress ==
    /\ \E k \in {"p", "P", "x"} :
          max_particles' = ParticlesHandleKeypress(max_particles, k)
    /\ UNCHANGED <<loop, COLORS, color_calls, particles, line>>

NextParticles ==
    \/ ParticlesDraw
    \/ ParticlesKeypress

SpecParticles == InitParticles /\ [][NextParticles]_vars

(***************************************************************************)
(* A call of draw_line from the draw of the stick figure, followed turn by *)
(* turn of its loop.  The window is 6 rows of 40 columns and the end       *)
(* points are within MaxReach cells of its centre, so that rows above and  *)
(* below the window are among them; the last cell of the window is not,    *)
(* as in the program, where the lines of the figure stay inside the box    *)
(* around the centre that draw has already written to (stick_figure.py     *)
(* 22-26).                                                                 *)
(***************************************************************************)
LineWindow == Geometry(6, 40)

\* the columns and the rows of the end points
LineColumns == ((LineWindow.w \div 2) - MaxReach)..((LineWindow.w \div 2) + MaxReach)
LineRows == ((LineWindow.h \div 2) - MaxReach)..((LineWindow.h \div 2) + MaxReach)

InitLine == Init /\ N = Len(AllTypes)

DrawLineCall ==
    /\ line = <<>>
    /\ \E x1 \in LineColumns, x2 \in LineColumns, y1 \in LineRows, y2 \in LineRows :
          line' = <<draw_line(x1, y1, x2, y2, LineWindow.h, LineWindow.w)>>
    /\ UNCHANGED <<loop, COLORS, color_calls, particles, max_particles>>

DrawLineTurn ==
    /\ line # <<>>
    /\ line[1].at = "loop"
    /\ line' = <<LoopTurn(line[1])>>
    /\ UNCHANGED <<loop, COLORS, color_calls, particles, max_particles>>

NextLine ==
    \/ DrawLineCall
    \/ DrawLineTurn

\* the one thread of the session runs the loop: a turn that can be taken is taken
SpecLine == InitLine /\ [][NextLine]_vars /\ WF_vars(DrawLineTurn)


(***************************************************************************)
(* Properties.                                                             *)
(***************************************************************************)
\* the global key bindings as the specification lists them
GlobalKeys == {"q", "m", " ", "+", "=", "-"}

\* the session states of the specification
TERMINATED == pc \in {"finally", "wrapper", "exited"}
RUNNING == pc \in {"keys", "frame"} /\ ~pause
PAUSED == pc \in {"keys", "frame"} /\ pause

FullTeardown == <<"stop_stream", "close", "terminate", "endwin">>

\* C1: a step taken while the session is paused reads no audio block, draws
\* nothing and does not clear the display; the paused frame step only returns
\* to the key poll, and the key step of a paused iteration polls a key and
\* applies the quit, mode, pause and sensitivity keys.
C1_PausedIterationOnlyPolls ==
    /\ [][PAUSED => /\ ~Made(calls', "read")
                    /\ ~Made(calls', "draw")
                    /\ ~Made(calls', "erase")]_vars
    /\ [][(PAUSED /\ pc = "frame") => (pc' = "keys" /\ calls' = <<>>)]_vars
    /\ [][(PAUSED /\ pc = "keys") =>
            /\ Made(calls', "getkey")
            /\ key' = "q" => pc' = "finally"
            /\ (key' = "m" /\ N > 0) =>
                   current_visualizer_index' = (current_visualizer_index + 1) % N
            /\ key' = " " => ~pause'
            /\ key' \in {"+", "="} => sensitivity' = FAdd(sensitivity, D_0_1)
            /\ key' = "-" => sensitivity' = FMax(D_0_1, FSub(sensitivity, D_0_1))]_vars

\* a paused iteration has polled the mode key and moved the selection back to
\* the first of three instances
C1_Witness ==
    /\ PAUSED /\ pc = "frame" /\ key = "m"
    /\ N = 3 /\ current_visualizer_index = 0

\* C2 (as claimed): a frame step that invoked draw is followed by the next key
\* poll, the session still RUNNING and the same visualizer active, whether or
\* not draw raised.
C2_DrawErrorContained ==
    [][(pc = "frame" /\ Made(calls', "draw")) =>
          /\ pc' = "keys"
          /\ ~pause'
          /\ current_visualizer_index' = current_visualizer_index]_vars

\* C3 (as claimed): whenever the process has left run, the audio stream was
\* stopped and closed, then PyAudio terminated, then the terminal restored.
C3_TeardownOnEveryExit == pc = "exited" => teardown = FullTeardown

\* C4: the key step offers the polled key to handle_keypress of the active
\* instance exactly when the key is not a global key, running or paused; a
\* global key is offered to nobody and changes no instance.
C4_GlobalKeysNeverForwarded ==
    [][(pc = "keys" /\ N > 0) =>
          /\ (key' \in GlobalKeys \/ key' = NoKey) =>
                 /\ ~Made(calls', "handle_keypress")
                 /\ visualizers' = visualizers
          /\ (key' \notin GlobalKeys /\ key' # NoKey) =>
                 /\ Made(calls', "handle_keypress")
                 /\ \A j \in 1..Len(calls') :
                        calls'[j][1] = "handle_keypress" =>
                            calls'[j] = <<"handle_keypress", current_visualizer_index, key'>>]_vars

\* Fractal Universe is active and paused, '-' was polled, and its zoom is untouched
C4_Witness ==
    /\ PAUSED /\ pc = "frame" /\ key = "-"
    /\ visualizers[current_visualizer_index + 1].type = "fractal_universe"
    /\ visualizers[current_visualizer_index + 1].zoom_steps = 0

\* C5: the step that polls the quit key, running or paused, ends the loop; a
\* terminated session makes no call but the release calls, changes nothing
\* else and stays terminated; and a session that quit and exited has released
\* the audio device and the terminal.
C5_QuitTerminates ==
    /\ [][(pc = "keys" /\ key' = "q") => (pc' = "finally" /\ calls' = <<<<"getkey">>>>)]_vars
    /\ [][TERMINATED =>
            /\ TERMINATED'
            /\ calls' = <<>>
            /\ UNCHANGED <<visualizers, current_visualizer_index, pause, sensitivity>>]_vars
    /\ [](pc = "finally" => ENABLED Finally)
    /\ []((pc = "exited" /\ exit_cause = "quit") => teardown = FullTeardown)

\* the quit key was polled while paused, and the session has exited
C5_Witness == pc = "exited" /\ exit_cause = "quit" /\ pause /\ key = "q"

\* C6: no step of the loop changes an instance that is not the active one or
\* makes a call on it; so every inactive instance is as it was when it was
\* left, and the instance the mode key switches back to is in that state.
C6_InactiveUntouched ==
    /\ [][pc # "run" =>
            \A j \in 1..N : j # current_visualizer_index + 1 =>
                /\ visualizers'[j] = visualizers[j]
                /\ \A c \in 1..Len(calls') :
                       calls'[c][1] \in {"draw", "handle_keypress", "setup"} =>
                           calls'[c][2] # j - 1]_vars
    /\ [](pc \in {"keys", "frame"} =>
            \A j \in 1..N : j # current_visualizer_index + 1 => visualizers[j] = left_as[j])
    /\ [][(pc = "keys" /\ key' = "m" /\ N > 1) =>
            visualizers'[current_visualizer_index' + 1] = left_as[current_visualizer_index' + 1]]_vars

\* Flame was drawn and resized, left, and is active again after a round of
\* frames drawn by the two other instances
C6_Witness ==
    /\ N = 3 /\ pc = "frame" /\ key = "m" /\ current_visualizer_index = 0
    /\ visualizers[1].anim = "advanced" /\ visualizers[1].flame_width = 85
    /\ visualizers[2].anim = "advanced" /\ visualizers[3].anim = "advanced"

\* C7 (as claimed): in the loop every instance has had setup() invoked exactly once.
C7_SetupExactlyOnce ==
    pc \in {"keys", "frame"} => \A j \in 1..N : visualizers[j].setup_calls = 1

\* C7 (amended): run invokes setup() once on every instance before the loop,
\* so before any draw; after that no frame, no switch and no global key invokes
\* setup(): the only later invocations are those Flame's handle_keypress makes
\* on itself for its resize keys, and every other instance keeps exactly one.
C7_SetupOnceByRun ==
    /\ [](pc \in {"keys", "frame"} =>
            \A j \in 1..N :
                /\ visualizers[j].setup_calls >= 1
                /\ visualizers[j].type # "flame" => visualizers[j].setup_calls = 1)
    /\ [](\A j \in 1..N : visualizers[j].anim = "advanced" => visualizers[j].setup_calls >= 1)
    /\ [][(pc = "run" /\ pc' = "keys") =>
            calls' = [j \in 1..N |-> <<"setup", j - 1>>]]_vars
    /\ [][(pc # "run" /\ Made(calls', "setup")) =>
            /\ key' \in {"w", "W", "h", "H"}
            /\ visualizers[current_visualizer_index + 1].type = "flame"
            /\ \A c \in 1..Len(calls') :
                   calls'[c][1] = "setup" => calls'[c][2] = current_visualizer_index
            /\ visualizers'[current_visualizer_index + 1].setup_calls =
                   visualizers[current_visualizer_index + 1].setup_calls + 1]_vars

\* Flame's 'w' has just re-run its setup()
C7_Witness ==
    /\ pc = "frame" /\ key = "w"
    /\ Made(calls, "setup")
    /\ visualizers[current_visualizer_index + 1].setup_calls = 2

RECURSIVE CycleTimes(_, _, _)
CycleTimes(i, n, k) == IF k = 0 THEN i ELSE CycleTimes(cycle(i, n), n, k - 1)

\* C8: the mode key maps index i to (i + 1) mod N; from the current index N
\* presses return to it, and the N presses visit every index of 0..N-1 once.
C8_CyclicPermutation ==
    /\ [][(pc = "keys" /\ key' = "m" /\ N > 0) =>
            current_visualizer_index' = (current_visualizer_index + 1) % N]_vars
    /\ [](N > 0 =>
            /\ current_visualizer_index \in 0..(N - 1)
            /\ CycleTimes(current_visualizer_index, N, N) = current_visualizer_index
            /\ {CycleTimes(current_visualizer_index, N, k) : k \in 1..N} = 0..(N - 1))

\* the mode key has wrapped the selection from the last of three instances to the first
C8_Witness ==
    /\ N = 3 /\ pc = "frame" /\ key = "m" /\ current_visualizer_index = 0
    /\ left_as[3] # Active /\ left_as[3].anim = "advanced"

\* C9: the sensitivity is never below 0.1, and a run of 20 decreases from the
\* default leaves it at exactly 0.1.
C9_SensitivityFloor ==
    /\ ~FLess(sensitivity, D_0_1)
    /\ (sens_run.kind = "dec" /\ sens_run.n = 20) => sensitivity = D_0_1

\* twenty decreases and nothing else have been pressed, the last one while paused
C9_Witness ==
    /\ sens_run = [kind |-> "dec", n |-> 20]
    /\ PAUSED /\ key = "-"
    /\ sensitivity = D_0_1

\* C10 (as claimed): five increases from the default leave the sensitivity at
\* exactly 1.5.
C10_FiveIncreasesExact ==
    (sens_run.kind = "inc" /\ sens_run.n = 5) => sensitivity = D_1_5

\* C11 (as claimed): with an empty registry the session never enters the
\* render loop, running or paused, and never reads an audio block.
C11_EmptyRegistryAborts ==
    N = 0 => (pc \notin {"keys", "frame"} /\ ~Made(calls, "read"))

\* is there an instance of type t in the registry?
Registered(t) == \E i \in 1..N : visualizers[i].type = t

\* C12 (as claimed): once discovery is over, the registry holds an instance of
\* a type exactly when no import and no construction of that type raised.
C12_LoadFailuresIsolated ==
    pc \in {"open", "run", "exited"} =>
        \A t \in TypeSet : Registered(t) <=> discovery.raised[t] = "none"

\* C13 (as claimed): when run is called, the constructor of every type has run
\* exactly once, the registry holds at most one instance of a type, and the
\* instances are in module order.
C13_OneConstructionPerType ==
    pc = "run" =>
        /\ \A t \in TypeSet : discovery.constructed[t] = 1
        /\ \A i, j \in 1..N : visualizers[i].type = visualizers[j].type => i = j
        /\ visualizers = load_visualizers({t \in TypeSet : ~Registered(t)})

\* the values of an array
Values(a) == {a[i].v : i \in 1..Len(a)}

NonNegative(a) == \A v \in Values(a) : ~v.neg

\* C14: the spectrum handed to draw has CHUNK / 2 values, none negative, and
\* so have the smoothed and the previous spectrum of every reachable state.
C14_SpectrumShape ==
    /\ \A i \in 1..Len(draw_args) :
          /\ ArrayLen(draw_args[i].spectrum) = CHUNK \div 2
          /\ NonNegative(draw_args[i].spectrum)
    /\ ArrayLen(smoothed_spectrum) = CHUNK \div 2 /\ NonNegative(smoothed_spectrum)
    /\ ArrayLen(previous_spectrum) = CHUNK \div 2 /\ NonNegative(previous_spectrum)

\* a block of negative samples was read at a raised sensitivity and drawn
C14_Witness ==
    /\ blocks_read = 2 /\ last_block = Level(-32768, 0)
    /\ draw_args # <<>> /\ draw_args[1].spectrum # zeros(CHUNK \div 2)
    /\ sens_run.kind = "inc"

\* the triples of values that arrays x, y and z of the same runs hold
Triples(x, y, z) == {<<x[i].v, y[i].v, z[i].v>> : i \in 1..Len(x)}

\* the triples of values that arrays a, b and c of one length hold at one index
Bins(a, b, c) ==
    Triples(Refine(Refine(a, b), c), Refine(Refine(b, a), c), Refine(c, Refine(a, b)))

\* x - y, exact
WExactSub(x, y) == WExactAdd(x, WNeg(y))

\* |a - b| of natural numbers
BigDist(a, b) == IF BigLess(a, b) THEN BigSub(b, a) ELSE BigSub(a, b)

BigLeq(a, b) == ~BigLess(b, a)

\* a frame step that reads the block the frame before it read
SameBlockAgain == pc = "frame" /\ blocks_read >= 1 /\ blocks_read' = blocks_read + 1
                  /\ last_block' = last_block

\* is after - target exactly smoothing * (before - target)?
ShrinksExactly(after, before, target) ==
    LET e2 == WExactSub(after, target)
        e1 == WExactSub(before, target)
    IN  e2.neg = e1.neg /\ BigShl(e2.m, WScale) = BigMul(smoothing.m, e1.m)

\* is after - target smoothing * (before - target) to within
\* 2^-52 * (before + target), of the same sign and no larger than
\* before - target?
ShrinksRounded(after, before, target) ==
    LET e2 == WExactSub(after, target)
        e1 == WExactSub(before, target)
    IN  /\ e2.m # <<>> => e2.neg = e1.neg
        /\ BigLeq(e2.m, e1.m)
        /\ BigLeq(BigDist(BigShl(e2.m, WScale), BigMul(smoothing.m, e1.m)),
                  BigShl(BigAdd(before.m, target.m), WScale - 52))

RECURSIVE SmoothedAfter(_, _)
SmoothedAfter(b, k) ==
    IF k = 0 THEN zeros(CHUNK \div 2)
    ELSE Smoothed(SmoothedAfter(b, k - 1), Normalized(b))

ScalesExactly(a1, a2, s1, s2) == BigMul(a2.m, s1.m) = BigMul(a1.m, s2.m)

\* is a2 / a1 within 2^-k of s2 / s1, relatively?
ScalesRounded(a1, a2, s1, s2, k) ==
    \E p \in {BigMul(a1.m, s2.m)} :
        BigLeq(BigShl(BigDist(BigMul(a2.m, s1.m), p), k), p)

\* a key step that changes the sensitivity
GainKeyStep == pc = "keys" /\ sensitivity' # sensitivity

\* the energy of the smoothed spectrum at sensitivity s
EnergyAt(smoothed, s) == Energy(Adjusted(smoothed, s))

C17_EnergyOfLowestQuarter ==
    \A i \in 1..Len(draw_args) :
        /\ draw_args[i].energy =
               WTimesPow2(mean(Take(draw_args[i].spectrum,
                                    ArrayLen(draw_args[i].spectrum) \div 4)), 1)
        /\ ~draw_args[i].energy.neg

\* C17 (amended): the energy handed to draw, which is self.energy, is twice the
\* mean of the first CHUNK / 4 bins of the spectrum handed to draw, the lower
\* half of its CHUNK / 2 bins, and it is not negative.
C17_EnergyOfLowerHalf ==
    \A i \in 1..Len(draw_args) :
        /\ draw_args[i].energy =
               WTimesPow2(mean(Take(draw_args[i].spectrum, CHUNK \div 4)), 1)
        /\ CHUNK \div 4 = ArrayLen(draw_args[i].spectrum) \div 2
        /\ draw_args[i].energy = energy
        /\ ~draw_args[i].energy.neg

\* a spectrum whose first bin differs from the others was drawn
C17_Witness ==
    /\ draw_args # <<>> /\ last_block = Level(100, 12345)
    /\ Len(draw_args[1].spectrum) = 2
    /\ draw_args[1].energy # WZero

\* the first frame of a session at the default sensitivity reads a tone
FirstFrameReadsTone ==
    /\ pc = "frame" /\ blocks_read = 0 /\ sensitivity = D_1_0
    /\ blocks_read' = 1 /\ last_block'.kind = "tone"

\* is p / q < x?
BelowRatio(p, q, x) == BigLess(BigShl(BigInt(p), WScale), BigMul(x.m, BigInt(q)))

\* C18 (as claimed): the first frame of a session at the default sensitivity
\* that reads a block holding one strong low tone leaves an energy above 0.3.
C18_ToneEnergyAbove ==
    [][FirstFrameReadsTone => BelowRatio(3, 10, energy')]_vars

\* C19 (as claimed): in a terminal of any size the header write does not end
\* the session, and neither does a draw that must write the last cell of the
\* terminal: the frame step goes on to the next key poll.
C19_GeometryTolerated ==
    [][(pc = "frame" /\ Made(calls', "addstr")) =>
          /\ exit_cause' # "addstr"
          /\ DrawRaises(visualizers[current_visualizer_index + 1],
                        Geometry(calls'[1][2], calls'[1][3])) => pc' = "keys"]_vars

\* C20: the hue is at least 0 and below 1; a frame step that gets as far as
\* clearing the display adds the step to it and takes the fraction, every other
\* step leaves it alone, a step of a paused session among them; and draw is
\* handed the hue the frame has just advanced.
C20_HueInUnitInterval ==
    /\ [](~hue_offset.neg /\ WLess(hue_offset, W_1_0))
    /\ [][Made(calls', "erase") =>
            hue_offset' = IF WLess(WAdd(hue_offset, hue_step), W_1_0)
                          THEN WAdd(hue_offset, hue_step)
                          ELSE WSub(WAdd(hue_offset, hue_step), W_1_0)]_vars
    /\ [][~Made(calls', "erase") => hue_offset' = hue_offset]_vars
    /\ [][PAUSED => hue_offset' = hue_offset]_vars
    /\ [][Made(calls', "draw") =>
            /\ draw_args'[1].hue_offset = hue_offset'
            /\ hue_offset' # hue_offset]_vars

\* the two hundredth frame has wrapped the hue, and the session was paused after it
C20_Witness ==
    /\ blocks_read = 200 /\ PAUSED /\ pc = "frame"
    /\ WLess(hue_offset, hue_step)
    /\ draw_args # <<>> /\ draw_args[1].hue_offset = hue_offset

\* the calls of method fn among the colour calls the history holds
CallsOf(fn) == {i \in 1..Len(color_calls) : color_calls[i].fn = fn}

\* the level of channel c: the integer l with l / 6 <= c / 256 < (l + 1) / 6
LevelOf(c) == CHOOSE l \in 0..5 : l * 256 <= c * 6 /\ c * 6 < (l + 1) * 256

\* C21: with 256 colours, get_color_pair called with channels in 0..255 returns
\* the pair 36 * r_level + 6 * g_level + b_level + 1 for the levels
\* floor(channel * 6 / 256) of the channels; the pair is in 1..216, it is one
\* of the pairs setup_colors defined, its colour is the cube entry of these
\* levels and none of the first 16 colours.
C21_CubeIndex ==
    \A i \in CallsOf("get_color_pair") :
        LET a == color_calls[i].args
            p == color_calls[i].result.pair
        IN  (COLORS >= 256 /\ \A k \in 1..3 : a[k] \in 0..255) =>
                /\ p = 36 * LevelOf(a[1]) + 6 * LevelOf(a[2]) + LevelOf(a[3]) + 1
                /\ p \in 1..216
                /\ ~color_calls[i].result.bold
                /\ DOMAIN setup_colors(COLORS) = 1..216
                /\ setup_colors(COLORS)[p].color \in 16..231
                /\ setup_colors(COLORS)[p].levels =
                       <<LevelOf(a[1]), LevelOf(a[2]), LevelOf(a[3])>>

\* with 256 colours get_color_pair was called with channels of the levels 1, 3
\* and 5, the first of them just past the border of level 0
C21_Witness ==
    /\ COLORS = 256
    /\ \E i \in CallsOf("get_color_pair") :
          /\ color_calls[i].args = <<43, 128, 214>>
          /\ color_calls[i].result.pair = 60

C28_HsvPairInCube ==
    \A i \in CallsOf("hsv_to_color_pair") :
        COLORS >= 256 => color_calls[i].result.pair \in 1..216

\* the instances of a registry in its order, by their kind
Members(vs) == [i \in 1..Len(vs) |-> vs[i].type]

\* C24: once the session runs, no step changes the length, the members or the
\* order of the registry; with one instance or more the index stays within
\* 0..N-1 whatever keys arrive, and the lookup of the active instance does
\* not fail.
C24_RegistryFixed ==
    /\ [][Members(visualizers') = Members(visualizers)]_vars
    /\ [](N >= 1 => /\ current_visualizer_index \in 0..(N - 1)
                    /\ exit_cause # "lookup")

\* the mode key has taken a registry of three from its last instance back to
\* the first, which the frame after it has drawn
C24_Witness ==
    /\ N = 3 /\ current_visualizer_index = 0
    /\ left_as[3] # Active
    /\ pc = "keys" /\ Made(calls, "draw")
    /\ Members(visualizers) = AllTypes

\* C25 (as claimed): every iteration that goes on to the next key poll, a
\* paused one too, sleeps before it.
C25_SleepEveryIteration ==
    [][(pc = "frame" /\ pc' = "keys") => Made(calls', "sleep")]_vars

\* the number of calls named name among the calls cs
Count(cs, name) == Cardinality({j \in 1..Len(cs) : cs[j][1] = name})

\* the draw call of the frame step just taken is on the instance selected
\* when the step began, with the spectrum and the energy of the block the
\* step read
DrawnFromBlock ==
    \E a \in {get_audio_data(last_block', smoothed_spectrum, sensitivity)} :
        /\ \A j \in 1..Len(calls') :
               calls'[j][1] = "draw" => calls'[j] = <<"draw", current_visualizer_index>>
        /\ draw_args'[1].spectrum = a.adjusted_spectrum
        /\ draw_args'[1].energy = a.energy
        /\ energy' = a.energy

EndedBeforeDraw == exit_cause' \in {"read", "lookup", "addstr"}

KeyRaises(k) ==
    \/ k = "m" /\ N = 0
    \/ /\ k \notin GlobalKeys /\ k # NoKey
       /\ \/ N = 0
          \/ /\ visualizers[current_visualizer_index + 1].type = "neural_dreamscape_lite"
             /\ visualizers[current_visualizer_index + 1].field = "None"
             /\ k = "b"

\* C26: a key step in which applying the key raises, in the handler of the
\* active instance or in the mode key's modulo or the lookup on an empty
\* registry, goes on to the frame step of its iteration: the session is not
\* left, and pause, sensitivity, the index and every instance are as before.
C26_KeyErrorSwallowed ==
    [][(pc = "keys" /\ KeyRaises(key')) =>
          /\ pc' = "frame"
          /\ exit_cause' = exit_cause /\ teardown' = teardown
          /\ pause' = pause /\ sensitivity' = sensitivity
          /\ current_visualizer_index' = current_visualizer_index
          /\ visualizers' = visualizers]_vars

\* the session was paused before Neural Dreamscape Lite was selected, so no
\* draw has allocated its field, and 'b' was handed to it
C26_Witness ==
    /\ PAUSED /\ pc = "frame" /\ key = "b" /\ N = 2
    /\ visualizers[current_visualizer_index + 1].type = "neural_dreamscape_lite"
    /\ visualizers[current_visualizer_index + 1].field = "None"
    /\ Made(calls, "handle_keypress")
    /\ exit_cause = "none"

\* C27 (as claimed): while Guitar Tuner is active the right arrow selects the
\* next of the six strings and the left arrow the previous one, wrapping
\* round, and selected_string is string_names[string_index].
C27_ArrowKeysSelectString ==
    [][(/\ pc = "keys" /\ N > 0
        /\ visualizers[current_visualizer_index + 1].type = "guitar_tuner"
        /\ key' \in {"KEY_RIGHT", "KEY_LEFT"}) =>
          LET before == visualizers[current_visualizer_index + 1]
              after  == visualizers'[current_visualizer_index + 1]
          IN  /\ after.string_index =
                     IF key' = "KEY_RIGHT" THEN (before.string_index + 1) % 6
                     ELSE (before.string_index + 5) % 6
              /\ after.selected_string = string_names[after.string_index + 1]]_vars

\* C29 (as claimed): the number of live particles never exceeds max_particles,
\* and max_particles stays within 50..500.
C29_ParticlesBounded ==
    /\ particles <= max_particles
    /\ max_particles \in 50..500

\* the turns the loop of call l still needs: the larger of the two distances
\* to the end point
Remaining(l) == Max(abs_(l.x2 - l.x1), abs_(l.y2 - l.y1))

\* C30: every call of draw_line comes to its end: each turn of the loop that
\* does not stop it brings the larger distance to the end point down by one,
\* so after max(|x2 - x1|, |y2 - y1|) moves the position is (x2, y2) and the
\* next turn returns; the loop is left there and nowhere else.
C30_DrawLineTerminates ==
    /\ [](line # <<>> =>
            /\ line[1].steps + Remaining(line[1]) = Max(line[1].dx, line[1].dy)
            /\ line[1].steps <= Max(line[1].dx, line[1].dy)
            /\ line[1].at # "raised"
            /\ line[1].at = "returned" =>
                   /\ line[1].x1 = line[1].x2 /\ line[1].y1 = line[1].y2
                   /\ line[1].steps = Max(line[1].dx, line[1].dy))
    /\ (line # <<>>) ~> (line # <<>> /\ line[1].at = "returned")

\* a call for a line that is steep, runs up and to the left and starts below
\* the window has returned after its three moves, with three of its four
\* cells written
C30_Witness ==
    /\ line # <<>> /\ line[1].at = "returned"
    /\ line[1].dx = 2 /\ line[1].dy = 3 /\ line[1].sx = -1 /\ line[1].sy = -1
    /\ line[1].steps = 3
    /\ line[1].written = 3

====
